---------------------------- MODULE Spec2Model ----------------------------
(***************************************************************************)
(* Model of moeenn/namedSQL (src/src/main.ts, src/src/database.ts):        *)
(*   - named(): the named-placeholder compiler, as a pure operator over    *)
(*     strings represented as sequences of one-character strings;          *)
(*   - Database.transaction(): the begin / callback / commit / rollback /  *)
(*     release protocol, run by several callers over a bounded pool whose  *)
(*     connections execute their statements first-in first-out.            *)
(***************************************************************************)
EXTENDS Integers, Sequences, FiniteSets, TLC

VARIABLES
    query,      \* named(): the template handed to the call
    args,       \* named(): the argument map, own entries in insertion order
    phase,      \* named(): "input" before the call, "returned" / "thrown" after
    result,     \* named(): the NamedQueryResult or the MissingArgumentError
    pc,         \* transaction(): where each run stands
    handle,     \* transaction(): the connection pool.connect() gave the run
    err,        \* transaction(): the error caught by the catch block
    outcome,    \* transaction(): how the promise of the run settled
    cbResult,   \* how the callback of the run ended
    owner,      \* pool: the run each connection is checked out to
    releases,   \* pool: how often each run released its connection
    queue,      \* driver: the statements queued on each connection, head active
    issued,     \* driver: the statements each run issued, in order
    executed,   \* driver: the statements of each run completed, in order
    unhandled,  \* the failed statements whose promise nobody awaits
    inTx,       \* database: whether the session of a connection is in a transaction
    pending,    \* database: the rows written in the open transaction of a session
    visible,    \* database: the committed rows, visible to every connection
    ended,      \* pool: whether end() has been called on it
    lastCall    \* the last call made on each handle, and how it ended

namedVars == <<query, args, phase, result>>

runVars == <<pc, handle, err, outcome, cbResult>>

poolVars == <<owner, releases>>

driverVars == <<queue, issued, executed, unhandled>>

dbVars == <<inTx, pending, visible>>

txVars == <<runVars, poolVars, driverVars, dbVars>>

handleVars == <<ended, lastCall>>

vars == <<namedVars, txVars, handleVars>>

-----------------------------------------------------------------------------
(* Bounds of the model.                                                    *)

\* Longest template enumerated character by character.
MaxLen == 4

\* Concurrent calls of Database.transaction.
NumRuns == 2

\* Connections of the pool (the max of pg's Pool).
PoolSize == 1

\* Statements a callback issues at most.
MaxStmts == 1

-----------------------------------------------------------------------------
(* Characters and strings.                                                 *)

Lower == {"a","b","c","d","e","f","g","h","i","j","k","l","m",
          "n","o","p","q","r","s","t","u","v","w","x","y","z"}

Upper == {"A","B","C","D","E","F","G","H","I","J","K","L","M",
          "N","O","P","Q","R","S","T","U","V","W","X","Y","Z"}

Digits == {"0","1","2","3","4","5","6","7","8","9"}

\* [a-zA-Z_] : the first character of a placeholder name.
IsIdentStart(ch) == ch \in Lower \cup Upper \cup {"_"}

\* [a-zA-Z0-9_] : \w of the regular expressions; \W is its complement.
IsWordChar(ch) == ch \in Lower \cup Upper \cup Digits \cup {"_"}

\* White space removed by String.prototype.trim.
IsSpace(ch) == ch \in {" ", "\t", "\n", "\r"}

DigitChar(d) ==
    CASE d = 0 -> "0" [] d = 1 -> "1" [] d = 2 -> "2" [] d = 3 -> "3"
      [] d = 4 -> "4" [] d = 5 -> "5" [] d = 6 -> "6" [] d = 7 -> "7"
      [] d = 8 -> "8" [] d = 9 -> "9"

\* The decimal text of a positive integer: `${idx}` of the template literal.
RECURSIVE ToDecimal(_)
ToDecimal(n) ==
    IF n < 10 THEN <<DigitChar(n)>>
    ELSE ToDecimal(n \div 10) \o <<DigitChar(n % 10)>>

\* The end of the longest run of word characters of q that starts at i
\* (i - 1 when q[i] is no word character).
RECURSIVE WordEnd(_, _)
WordEnd(q, i) ==
    IF i <= Len(q) /\ IsWordChar(q[i]) THEN WordEnd(q, i + 1) ELSE i - 1

\* query.matchAll(/\$([a-zA-Z_][a-zA-Z0-9_]*)/g) mapped to match[0].slice(1):
\* the names of the placeholder occurrences from position i on, left to right.
RECURSIVE MatchAllFrom(_, _)
MatchAllFrom(q, i) ==
    IF i > Len(q) THEN <<>>
    ELSE IF q[i] = "$" /\ i + 1 <= Len(q) /\ IsIdentStart(q[i + 1])
         THEN <<SubSeq(q, i + 1, WordEnd(q, i + 1))>>
                  \o MatchAllFrom(q, WordEnd(q, i + 1) + 1)
         ELSE MatchAllFrom(q, i + 1)

MatchAll(q) == MatchAllFrom(q, 1)

\* A set that orders the names by their last insertion instead.
RECURSIVE SetOfByLastInsertion(_)
SetOfByLastInsertion(s) ==
    IF s = <<>> THEN <<>>
    ELSE LET rest == SetOfByLastInsertion(Tail(s))
         IN  IF \E i \in 1..Len(rest) : rest[i] = Head(s)
             THEN rest
             ELSE <<Head(s)>> \o rest

\* new Set(params): the distinct names, in order of first insertion.
RECURSIVE SetOf(_)
SetOf(s) ==
    IF s = <<>> THEN <<>>
    ELSE LET front == SetOf(SubSeq(s, 1, Len(s) - 1))
             last  == s[Len(s)]
         IN  IF \E i \in 1..Len(front) : front[i] = last
             THEN front
             ELSE Append(front, last)

-----------------------------------------------------------------------------
(* Values of the argument map.                                             *)

Undefined == [type |-> "undefined", val |-> <<>>]
Null      == [type |-> "null", val |-> <<>>]
StringValue(s) == [type |-> "string", val |-> s]
NumberValue(s) == [type |-> "number", val |-> s]
DateValue(s)   == [type |-> "date", val |-> s]
ArrayValue(s)  == [type |-> "array", val |-> s]
BooleanValue(s) == [type |-> "boolean", val |-> s]
FunctionValue(name) == [type |-> "function", val |-> name]

\* The properties every object literal inherits from Object.prototype that
\* are spelled like a placeholder name.
ObjectPrototype ==
    { <<"v","a","l","u","e","O","f">>,
      <<"t","o","S","t","r","i","n","g">>,
      <<"c","o","n","s","t","r","u","c","t","o","r">> }

HasOwn(a, name) == \E i \in 1..Len(a) : a[i].key = name

\* A lookup whose null entries read as undefined (a test with == instead
\* of ===).
LookupNullish(a, name) ==
    IF HasOwn(a, name)
    THEN LET v == (a[CHOOSE i \in 1..Len(a) : a[i].key = name]).value
         IN  IF v = Null THEN Undefined ELSE v
    ELSE IF name \in ObjectPrototype THEN FunctionValue(name)
    ELSE Undefined

\* args[param]: the own entry when there is one, else the property inherited
\* through the prototype chain, else undefined.
Lookup(a, name) ==
    IF HasOwn(a, name)
    THEN (a[CHOOSE i \in 1..Len(a) : a[i].key = name]).value
    ELSE IF name \in ObjectPrototype THEN FunctionValue(name)
    ELSE Undefined

\* A marshalling without the number branch: a number takes the toString()
\* branch.
MarshalNumberAsText(v) ==
    CASE v.type = "null"   -> Null
      [] v.type = "date"   -> StringValue(<<"ISO">> \o v.val)
      [] v.type = "array"  -> v
      [] v.type = "function" ->
             StringValue(<<"function ">> \o v.val \o <<"() { [native code] }">>)
      [] OTHER -> StringValue(v.val)

\* A marshalling without the Date branch: a date takes the toString() branch.
MarshalDateAsText(v) ==
    CASE v.type = "null"   -> Null
      [] v.type = "number" -> v
      [] v.type = "array"  -> v
      [] v.type = "function" ->
             StringValue(<<"function ">> \o v.val \o <<"() { [native code] }">>)
      [] OTHER -> StringValue(v.val)

\* The value pushed on paramArray for a paramValue that is not undefined.
Marshal(v) ==
    CASE v.type = "null"   -> Null
      [] v.type = "number" -> v
      [] v.type = "date"   -> StringValue(<<"ISO">> \o v.val)
      [] v.type = "array"  -> v
      [] v.type = "function" ->
             StringValue(<<"function ">> \o v.val \o <<"() { [native code] }">>)
      [] OTHER -> StringValue(v.val)

-----------------------------------------------------------------------------
(* named().                                                                *)

\* The pattern without its lookahead: "$" and the name, whatever follows.
ReplacePatternLacksLookahead(q, i, param) ==
    /\ q[i] = "$"
    /\ i + Len(param) <= Len(q)
    /\ SubSeq(q, i + 1, i + Len(param)) = param

\* Whether new RegExp(`\\$${param}(?=\\W|$)`) matches q at position i.
ReplacePatternAt(q, i, param) ==
    /\ q[i] = "$"
    /\ i + Len(param) <= Len(q)
    /\ SubSeq(q, i + 1, i + Len(param)) = param
    /\ \/ i + Len(param) = Len(q)
       \/ ~IsWordChar(q[i + Len(param) + 1])

\* query.replaceAll(replacePattern, `$${idx}`) from position i on: every match
\* becomes "$" and the decimal index, every other character is kept.
RECURSIVE ReplaceAllFrom(_, _, _, _)
ReplaceAllFrom(q, i, param, idx) ==
    IF i > Len(q) THEN <<>>
    ELSE IF ReplacePatternAt(q, i, param)
         THEN <<"$">> \o ToDecimal(idx)
                  \o ReplaceAllFrom(q, i + Len(param) + 1, param, idx)
         ELSE <<q[i]>> \o ReplaceAllFrom(q, i + 1, param, idx)

ReplaceAll(q, param, idx) == ReplaceAllFrom(q, 1, param, idx)

\* A trim of the leading white space only.
RECURSIVE TrimLeadingOnly(_)
TrimLeadingOnly(s) ==
    IF s # <<>> /\ IsSpace(s[1]) THEN TrimLeadingOnly(Tail(s)) ELSE s

\* String.prototype.trim.
RECURSIVE TrimStart(_)
TrimStart(s) ==
    IF s # <<>> /\ IsSpace(s[1]) THEN TrimStart(Tail(s)) ELSE s

RECURSIVE TrimEnd(_)
TrimEnd(s) ==
    IF s # <<>> /\ IsSpace(s[Len(s)])
    THEN TrimEnd(SubSeq(s, 1, Len(s) - 1))
    ELSE s

Trim(s) == TrimEnd(TrimStart(s))

NamedQueryResult(preparedQuery, params) ==
    [kind |-> "NamedQueryResult", preparedQuery |-> preparedQuery,
     params |-> params, arg |-> <<>>]

MissingArgumentError(arg) ==
    [kind |-> "MissingArgumentError", preparedQuery |-> <<>>,
     params |-> <<>>, arg |-> arg]

\* The for loop over paramsSet, from its i-th name on, with idx, the query as
\* rewritten so far and the params pushed so far.
RECURSIVE NamedLoop(_, _, _, _, _, _)
NamedLoop(paramsSet, i, idx, q, paramArray, a) ==
    IF i > Len(paramsSet)
    THEN NamedQueryResult(Trim(q), paramArray)
    ELSE LET param      == paramsSet[i]
             paramValue == Lookup(a, param)
         IN  IF paramValue = Undefined
             THEN MissingArgumentError(param)
             ELSE NamedLoop(paramsSet, i + 1, idx + 1,
                            ReplaceAll(q, param, idx),
                            Append(paramArray, Marshal(paramValue)), a)

named(q, a) == NamedLoop(SetOf(MatchAll(q)), 1, 1, q, <<>>, a)

-----------------------------------------------------------------------------
(* named() of src/database.ts, the module the tests import: the same loop  *)
(* with a string pattern in replaceAll and without the number branch.      *)

\* Whether the string `$${param}` occurs in q at position i.
StringPatternAt(q, i, param) ==
    /\ q[i] = "$"
    /\ i + Len(param) <= Len(q)
    /\ SubSeq(q, i + 1, i + Len(param)) = param

\* query.replaceAll(`$${param}`, `$${idx}`) from position i on: every
\* occurrence of the string, whatever follows it, becomes "$" and the index.
RECURSIVE StringReplaceAllFrom(_, _, _, _)
StringReplaceAllFrom(q, i, param, idx) ==
    IF i > Len(q) THEN <<>>
    ELSE IF StringPatternAt(q, i, param)
         THEN <<"$">> \o ToDecimal(idx)
                  \o StringReplaceAllFrom(q, i + Len(param) + 1, param, idx)
         ELSE <<q[i]>> \o StringReplaceAllFrom(q, i + 1, param, idx)

StringReplaceAll(q, param, idx) == StringReplaceAllFrom(q, 1, param, idx)

\* The value pushed on paramArray: a number takes the toString() branch.
MarshalDatabaseTs(v) ==
    CASE v.type = "null"   -> Null
      [] v.type = "date"   -> StringValue(<<"ISO">> \o v.val)
      [] v.type = "array"  -> v
      [] v.type = "function" ->
             StringValue(<<"function ">> \o v.val \o <<"() { [native code] }">>)
      [] OTHER -> StringValue(v.val)

RECURSIVE NamedLoopDatabaseTs(_, _, _, _, _, _)
NamedLoopDatabaseTs(paramsSet, i, idx, q, paramArray, a) ==
    IF i > Len(paramsSet) THEN NamedQueryResult(Trim(q), paramArray)
    ELSE LET param      == paramsSet[i]
             paramValue == Lookup(a, param)
         IN  IF paramValue = Undefined THEN MissingArgumentError(param)
             ELSE NamedLoopDatabaseTs(paramsSet, i + 1, idx + 1,
                                      StringReplaceAll(q, param, idx),
                                      Append(paramArray, MarshalDatabaseTs(paramValue)),
                                      a)

namedDatabaseTs(q, a) == NamedLoopDatabaseTs(SetOf(MatchAll(q)), 1, 1, q, <<>>, a)

-----------------------------------------------------------------------------
(* Database.transaction() over the pool, the driver and the database.      *)

Runs == 1..NumRuns

Conns == 1..PoolSize

NoRun == 0

NoConn == 0

Statement(t, kind) == [run |-> t, kind |-> kind]

Row(t, n) == [run |-> t, n |-> n]

\* The statements of kind the run issued so far.
CountIssued(t, kind) ==
    Cardinality({ i \in 1..Len(issued[t]) : issued[t][i].kind = kind })

\* client.query(text): the statement joins the queue of the connection; the
\* returned promise settles when the driver completes the statement.
ClientQuery(t, c, kind) ==
    /\ queue' = [queue EXCEPT ![c] = Append(@, Statement(t, kind))]
    /\ issued' = [issued EXCEPT ![t] = Append(@, [kind |-> kind, conn |-> c])]

\* A caller invokes transaction(callback): pool.connect() is awaited.
Call(t) ==
    /\ pc[t] = "idle"
    /\ pc' = [pc EXCEPT ![t] = "connect"]
    /\ UNCHANGED <<handle, err, outcome, cbResult, poolVars, driverVars, dbVars,
                   namedVars, handleVars>>

\* begin is issued and the run goes on to the callback without awaiting it.
ConnectWithoutAwait(t, c) ==
    /\ pc[t] = "connect"
    /\ owner[c] = NoRun
    /\ owner' = [owner EXCEPT ![c] = t]
    /\ handle' = [handle EXCEPT ![t] = c]
    /\ ClientQuery(t, c, "begin")
    /\ pc' = [pc EXCEPT ![t] = "callback"]
    /\ cbResult' = [cbResult EXCEPT ![t] = "running"]
    /\ UNCHANGED <<err, outcome, releases, executed, unhandled, dbVars,
                   namedVars, handleVars>>

\* pool.connect() resolves with an idle connection, which is checked out to
\* the run, and handle.query("begin") is issued and awaited.
Connect(t, c) ==
    /\ pc[t] = "connect"
    /\ owner[c] = NoRun
    /\ owner' = [owner EXCEPT ![c] = t]
    /\ handle' = [handle EXCEPT ![t] = c]
    /\ ClientQuery(t, c, "begin")
    /\ pc' = [pc EXCEPT ![t] = "begin"]
    /\ UNCHANGED <<err, outcome, cbResult, releases, executed, unhandled, dbVars,
                   namedVars, handleVars>>

\* pool.connect() rejects: transaction() rejects before it owns a connection.
ConnectFails(t) ==
    /\ pc[t] = "connect"
    /\ pc' = [pc EXCEPT ![t] = "done"]
    /\ outcome' = [outcome EXCEPT ![t] = "ConnectError"]
    /\ UNCHANGED <<handle, err, cbResult, poolVars, driverVars, dbVars, namedVars, handleVars>>

\* The callback issues a statement through tx.query and awaits it.
CallbackQuery(t) ==
    /\ pc[t] = "callback"
    /\ CountIssued(t, "insert") < MaxStmts
    /\ ClientQuery(t, handle[t], "insert")
    /\ pc' = [pc EXCEPT ![t] = "await"]
    /\ UNCHANGED <<handle, err, outcome, cbResult, poolVars, executed, unhandled,
                   dbVars, namedVars, handleVars>>

\* The callback completes normally: the try block goes on to tx.commit().
CallbackReturn(t) ==
    /\ pc[t] = "callback"
    /\ cbResult' = [cbResult EXCEPT ![t] = "returned"]
    /\ pc' = [pc EXCEPT ![t] = "commit"]
    /\ UNCHANGED <<handle, err, outcome, poolVars, driverVars, dbVars, namedVars, handleVars>>

\* The callback throws an error of its own: the catch block is entered.
CallbackThrow(t) ==
    /\ pc[t] = "callback"
    /\ cbResult' = [cbResult EXCEPT ![t] = "CallbackError"]
    /\ err' = [err EXCEPT ![t] = "CallbackError"]
    /\ pc' = [pc EXCEPT ![t] = "catch"]
    /\ UNCHANGED <<handle, outcome, poolVars, driverVars, dbVars, namedVars, handleVars>>

\* await tx.commit(): commit() issues the statement and returns without
\* awaiting it, so the await ends at once and never throws.
Commit(t) ==
    /\ pc[t] = "commit"
    /\ ClientQuery(t, handle[t], "commit")
    /\ pc' = [pc EXCEPT ![t] = "finally"]
    /\ UNCHANGED <<handle, err, outcome, cbResult, poolVars, executed, unhandled,
                   dbVars, namedVars, handleVars>>

\* A catch block that does not throw the error again.
CatchSwallows(t) ==
    /\ pc[t] = "catch"
    /\ ClientQuery(t, handle[t], "rollback")
    /\ err' = [err EXCEPT ![t] = "none"]
    /\ pc' = [pc EXCEPT ![t] = "finally"]
    /\ UNCHANGED <<handle, outcome, cbResult, poolVars, executed, unhandled,
                   dbVars, namedVars, handleVars>>

\* catch (err): await tx.rollback() issues the statement without awaiting it,
\* then err is thrown again.
Catch(t) ==
    /\ pc[t] = "catch"
    /\ ClientQuery(t, handle[t], "rollback")
    /\ pc' = [pc EXCEPT ![t] = "finally"]
    /\ UNCHANGED <<handle, err, outcome, cbResult, poolVars, executed, unhandled,
                   dbVars, namedVars, handleVars>>

\* A finally block that does not release the connection.
FinallyWithoutRelease(t) ==
    /\ pc[t] = "finally"
    /\ pc' = [pc EXCEPT ![t] = "done"]
    /\ outcome' = [outcome EXCEPT ![t] = IF err[t] = "none" THEN "resolved" ELSE err[t]]
    /\ UNCHANGED <<handle, err, cbResult, poolVars, driverVars, dbVars, namedVars, handleVars>>

\* finally: tx.release() gives the connection back to the pool, then
\* transaction() resolves, or rejects with the error thrown again.
Finally(t) ==
    /\ pc[t] = "finally"
    /\ owner' = [owner EXCEPT ![handle[t]] = NoRun]
    /\ releases' = [releases EXCEPT ![t] = @ + 1]
    /\ pc' = [pc EXCEPT ![t] = "done"]
    /\ outcome' = [outcome EXCEPT ![t] = IF err[t] = "none" THEN "resolved" ELSE err[t]]
    /\ UNCHANGED <<handle, err, cbResult, driverVars, dbVars, namedVars, handleVars>>

\* The continuations that run as microtasks once the callback has settled:
\* the event loop handles no response of the database before they are done.
MicrotasksPending == \E t \in Runs : pc[t] \in {"commit", "catch", "finally"}

\* What a statement that succeeded did to the database.
Effect(c, s) ==
    CASE s.kind = "begin" ->
             /\ inTx' = [inTx EXCEPT ![c] = TRUE]
             /\ UNCHANGED <<pending, visible>>
      [] s.kind = "insert" ->
             LET row == Row(s.run, Len(executed[s.run]) + 1)
             IN  IF inTx[c]
                 THEN /\ pending' = [pending EXCEPT ![c] = @ \cup {row}]
                      /\ UNCHANGED <<inTx, visible>>
                 ELSE /\ visible' = visible \cup {row}
                      /\ UNCHANGED <<inTx, pending>>
      [] s.kind = "commit" ->
             /\ visible' = visible \cup pending[c]
             /\ pending' = [pending EXCEPT ![c] = {}]
             /\ inTx' = [inTx EXCEPT ![c] = FALSE]
      [] s.kind = "rollback" ->
             /\ pending' = [pending EXCEPT ![c] = {}]
             /\ inTx' = [inTx EXCEPT ![c] = FALSE]
             /\ UNCHANGED visible

\* The continuation of the code that awaits the statement, if any does:
\* begin is awaited by transaction(), an insert by the callback; the promises
\* of commit and rollback are dropped, so their failure is nobody's.
Settle(s, ok) ==
    LET t == s.run
    IN  CASE s.kind = "begin" /\ ok ->
                 /\ pc' = [pc EXCEPT ![t] = "callback"]
                 /\ cbResult' = [cbResult EXCEPT ![t] = "running"]
                 /\ UNCHANGED <<err, outcome, unhandled>>
          [] s.kind = "begin" /\ ~ok ->
                 /\ pc' = [pc EXCEPT ![t] = "done"]
                 /\ outcome' = [outcome EXCEPT ![t] = "BeginError"]
                 /\ UNCHANGED <<err, cbResult, unhandled>>
          [] s.kind = "insert" /\ ok ->
                 /\ pc' = [pc EXCEPT ![t] = "callback"]
                 /\ UNCHANGED <<err, outcome, cbResult, unhandled>>
          [] s.kind = "insert" /\ ~ok ->
                 /\ pc' = [pc EXCEPT ![t] = "catch"]
                 /\ cbResult' = [cbResult EXCEPT ![t] = "StatementError"]
                 /\ err' = [err EXCEPT ![t] = "StatementError"]
                 /\ UNCHANGED <<outcome, unhandled>>
          [] s.kind \in {"commit", "rollback"} /\ ok ->
                 UNCHANGED <<pc, err, outcome, cbResult, unhandled>>
          [] s.kind \in {"commit", "rollback"} /\ ~ok ->
                 /\ unhandled' = unhandled \cup {s}
                 /\ UNCHANGED <<pc, err, outcome, cbResult>>

\* The database answers the active statement of a connection, with success
\* or with an error; the next statement of the queue becomes active.
Complete(c, ok) ==
    /\ queue[c] # <<>>
    /\ ~MicrotasksPending
    /\ LET s == Head(queue[c])
       IN  /\ queue' = [queue EXCEPT ![c] = Tail(@)]
           /\ executed' = [executed EXCEPT ![s.run] =
                               Append(@, [kind |-> s.kind, conn |-> c, ok |-> ok])]
           /\ IF ok THEN Effect(c, s) ELSE UNCHANGED dbVars
           /\ Settle(s, ok)
    /\ UNCHANGED <<handle, poolVars, issued, namedVars, handleVars>>

\* The two implementations of the handle interface.
Handles == {"Database", "Transaction"}

\* No call yet on a handle.
NoCall ==
    [op |-> "none", afterEnd |-> FALSE, input |-> <<>>, mode |-> "none",
     error |-> "none", sent |-> <<>>, acquired |-> FALSE]

\* new Pool(...): the pool is open and no handle method has been called.
InitHandle ==
    /\ ended = FALSE
    /\ lastCall = [h \in Handles |-> NoCall]

\* No run has called transaction(); the pool is idle, the database empty.
InitTx ==
    /\ pc = [t \in Runs |-> "idle"]
    /\ handle = [t \in Runs |-> NoConn]
    /\ err = [t \in Runs |-> "none"]
    /\ outcome = [t \in Runs |-> "pending"]
    /\ cbResult = [t \in Runs |-> "notCalled"]
    /\ owner = [c \in Conns |-> NoRun]
    /\ releases = [t \in Runs |-> 0]
    /\ queue = [c \in Conns |-> <<>>]
    /\ issued = [t \in Runs |-> <<>>]
    /\ executed = [t \in Runs |-> <<>>]
    /\ unhandled = {}
    /\ inTx = [c \in Conns |-> FALSE]
    /\ pending = [c \in Conns |-> {}]
    /\ visible = {}

Init ==
    /\ query = <<>>
    /\ args = <<>>
    /\ phase = "input"
    /\ result = NamedQueryResult(<<>>, <<>>)
    /\ InitTx
    /\ InitHandle

\* The steps of one run of transaction() and of its callback.
RunStep(t) ==
    \/ Call(t)
    \/ \E c \in Conns : Connect(t, c)
    \/ ConnectFails(t)
    \/ CallbackQuery(t)
    \/ CallbackReturn(t)
    \/ CallbackThrow(t)
    \/ Commit(t)
    \/ Catch(t)
    \/ Finally(t)

DriverStep(c) == \E ok \in BOOLEAN : Complete(c, ok)

Next ==
    \/ \E t \in Runs : RunStep(t)
    \/ \E c \in Conns : DriverStep(c)

Spec == Init /\ [][Next]_vars

\* Every continuation that is ready runs, and the database answers every
\* statement it was sent.
Fairness ==
    /\ \A t \in Runs : WF_vars(RunStep(t))
    /\ \A c \in Conns : WF_vars(DriverStep(c))

FairSpec == Init /\ [][Next]_vars /\ Fairness

-----------------------------------------------------------------------------
(* The inputs of named() and the call.                                     *)

\* Characters of the enumerated templates: the placeholder sign, a letter,
\* a digit, white space and a character that is neither.
Alphabet == {"$", "a", "1", " ", ":"}

BoundedSeqs(S, n) == UNION { [1..m -> S] : m \in 0..n }

\* Keys of the enumerated argument maps; "$a1" is a name they never supply.
ArgKeys == { <<"a">>, <<"a","a">> }

\* An own entry: the key is explicitly undefined, null, or a string that
\* tells the key it belongs to.
Entries ==
    { [key |-> k, value |-> v] :
        k \in ArgKeys, v \in {Undefined, Null} }
    \cup { [key |-> k, value |-> StringValue(<<"v">> \o k)] : k \in ArgKeys }

DistinctKeys(a) == \A i, j \in 1..Len(a) : a[i].key = a[j].key => i = j

ArgMaps == { a \in BoundedSeqs(Entries, Cardinality(ArgKeys)) : DistinctKeys(a) }

Entry(k, v) == [key |-> k, value |-> v]

\* Templates and argument maps of the repository's tests and examples, with
\* the text between the placeholders shortened.
ExampleInputs ==
    { \* "repeated params": ($id, $name, $created_at, $created_at)
      << <<"(","$","i","d",","," ","$","n",","," ","$","c","_","a",","," ",
           "$","c","_","a",")">>,
         <<Entry(<<"i","d">>, NumberValue(<<"3","0","0">>)),
           Entry(<<"n">>, StringValue(<<"admin">>)),
           Entry(<<"c","_","a">>, DateValue(<<"T">>))>> >>,
      \* the same call with the keys of the argument map in another order
      << <<"(","$","i","d",","," ","$","n",","," ","$","c","_","a",","," ",
           "$","c","_","a",")">>,
         <<Entry(<<"c","_","a">>, DateValue(<<"T">>)),
           Entry(<<"n">>, StringValue(<<"admin">>)),
           Entry(<<"i","d">>, NumberValue(<<"3","0","0">>))>> >>,
      \* "missing argument": limit $limit offset $offset, {limit: 20}
      << <<"$","l","i","m","i","t"," ","$","o","f","f","s","e","t">>,
         <<Entry(<<"l","i","m","i","t">>, NumberValue(<<"2","0">>))>> >>,
      \* both names missing
      << <<"$","l","i","m","i","t"," ","$","o","f","f","s","e","t">>,
         <<>> >>,
      \* "pass array as value": any($ids) and role = $role
      << <<"(","$","i","d","s",")"," ","$","r","o","l","e">>,
         <<Entry(<<"i","d","s">>, ArrayValue(<<"10","20">>)),
           Entry(<<"r","o","l","e">>, StringValue(<<"user">>))>> >>,
      \* "type-coersion in sql": $email::text ... $email::text ... $age::numeric
      << <<"$","e",":",":","t"," ","$","e",":",":","t"," ","$","a","g","e",":",":","n">>,
         <<Entry(<<"e">>, StringValue(<<"s@site.com">>)),
           Entry(<<"a","g","e">>, NumberValue(<<"3","0">>))>> >>,
      \* the comment of named(): $country and $country_code
      << <<"$","c"," ","$","c","_","c"," ","$","c">>,
         <<Entry(<<"c">>, StringValue(<<"US">>)),
           Entry(<<"c","_","c">>, StringValue(<<"US1">>))>> >>,
      << <<"$","c","_","c"," ","$","c"," ","$","c","_","c">>,
         <<Entry(<<"c">>, StringValue(<<"US">>)),
           Entry(<<"c","_","c">>, Null)>> >>,
      \* a placeholder spelled like a property of Object.prototype
      << <<"$","a"," ","$","v","a","l","u","e","O","f">>,
         <<Entry(<<"a">>, StringValue(<<"x">>))>> >>,
      << <<"$","v","a","l","u","e","O","f">>,
         <<Entry(<<"v","a","l","u","e","O","f">>, Undefined)>> >> }

\* The createUser statement of the README with a user entity: a string, a
\* boolean, a date, and the same entity with the date left null.
CreateUserInputs ==
    { << <<"(","$","i","d",","," ","$","a","c","t",","," ","$","a","t",")">>,
         <<Entry(<<"i","d">>, StringValue(<<"uuid">>)),
           Entry(<<"a","c","t">>, BooleanValue(<<"true">>)),
           Entry(<<"a","t">>, at)>> >> : at \in {DateValue(<<"T">>), Null} }

Inputs ==
    (BoundedSeqs(Alphabet, MaxLen) \X ArgMaps) \cup ExampleInputs
        \cup CreateUserInputs

InitNamed ==
    /\ \E in \in Inputs : query = in[1] /\ args = in[2]
    /\ phase = "input"
    /\ result = NamedQueryResult(<<>>, <<>>)
    /\ InitTx
    /\ InitHandle

\* A call of named(query, args): it returns a NamedQueryResult or throws a
\* MissingArgumentError; the caller's template and argument map are untouched.
CallNamed ==
    /\ phase = "input"
    /\ result' = named(query, args)
    /\ phase' = IF result'.kind = "NamedQueryResult" THEN "returned" ELSE "thrown"
    /\ UNCHANGED <<query, args, txVars, handleVars>>

NextNamed == CallNamed

SpecNamed == InitNamed /\ [][NextNamed]_vars

\* The same call made on named() of src/database.ts.
CallNamedDatabaseTs ==
    /\ phase = "input"
    /\ result' = namedDatabaseTs(query, args)
    /\ phase' = IF result'.kind = "NamedQueryResult" THEN "returned" ELSE "thrown"
    /\ UNCHANGED <<query, args, txVars, handleVars>>

NextDatabaseTs == CallNamedDatabaseTs

SpecDatabaseTs == InitNamed /\ [][NextDatabaseTs]_vars

-----------------------------------------------------------------------------
(* The handle methods of Database and Transaction, and disconnect().       *)

\* The templates and argument maps the handles are called with.
HandleInputs == ExampleInputs \cup CreateUserInputs

\* What named() gives for each of these inputs.
Compiled == [in \in HandleInputs |-> named(in[1], in[2])]

StatementOf(text, params) == [text |-> text, params |-> params]

\* How a call ended: resolved, rejected (a promise) or thrown (no promise),
\* with the statements it handed to the driver and whether a connection of
\* the pool was taken for it.
Ended(mode, error, sent, acquired) ==
    [mode |-> mode, error |-> error, sent |-> sent, acquired |-> acquired]

\* pool.query(text, params): the pool rejects once end() has been called on
\* it; otherwise it takes a connection, runs the statement and gives the
\* connection back, and the statement succeeds or fails in the database.
PoolQuery(text, params, ok) ==
    IF ended
    THEN Ended("rejected", "PoolEndedError", <<>>, FALSE)
    ELSE Ended(IF ok THEN "resolved" ELSE "rejected",
               IF ok THEN "none" ELSE "DatabaseError",
               <<StatementOf(text, params)>>, TRUE)

\* client.query(text, params) on the connection a Transaction holds.
TransactionClientQuery(text, params, ok) ==
    Ended(IF ok THEN "resolved" ELSE "rejected",
          IF ok THEN "none" ELSE "DatabaseError",
          <<StatementOf(text, params)>>, FALSE)

\* The record of a call of op on handle h with the given input.
Called(h, op, input, e) ==
    /\ lastCall' = [lastCall EXCEPT ![h] =
                    [op |-> op, afterEnd |-> ended, input |-> input,
                     mode |-> e.mode, error |-> e.error, sent |-> e.sent,
                     acquired |-> e.acquired]]
    /\ UNCHANGED <<namedVars, txVars>>

\* Database.ping(): await pool.query("select 1").
Ping(ok) ==
    /\ Called("Database", "ping", <<>>, PoolQuery(<<"select 1">>, <<>>, ok))
    /\ UNCHANGED ended

\* Database.query() and Transaction.query().
Query(h, ok) ==
    /\ h = "Transaction" => ~ended
    /\ Called(h, "query", <<>>,
              IF h = "Database"
              THEN PoolQuery(<<"select 2">>, <<>>, ok)
              ELSE TransactionClientQuery(<<"select 2">>, <<>>, ok))
    /\ UNCHANGED ended

\* Database.namedQuery(), an async method: what named() throws rejects the
\* promise of the call.
DatabaseNamedQuery(in, ok) ==
    /\ LET q == Compiled[in]
       IN  Called("Database", "namedQuery", in,
                  IF q.kind = "MissingArgumentError"
                  THEN Ended("rejected", "MissingArgumentError", <<>>, FALSE)
                  ELSE PoolQuery(q.preparedQuery, q.params, ok))
    /\ UNCHANGED ended

\* Transaction.namedQuery(), not an async method: what named() throws is
\* thrown by the call itself.
TransactionNamedQuery(in, ok) ==
    /\ ~ended
    /\ LET q == Compiled[in]
       IN  Called("Transaction", "namedQuery", in,
                  IF q.kind = "MissingArgumentError"
                  THEN Ended("thrown", "MissingArgumentError", <<>>, FALSE)
                  ELSE TransactionClientQuery(q.preparedQuery, q.params, ok))
    /\ UNCHANGED ended

\* Database.transaction() up to `await this.#pool.connect()`: the pool
\* rejects once end() has been called on it, else it gives a connection.
TransactionConnect ==
    /\ Called("Database", "transaction", <<>>,
              IF ended
              THEN Ended("rejected", "PoolEndedError", <<>>, FALSE)
              ELSE Ended("resolved", "none", <<>>, TRUE))
    /\ UNCHANGED ended

\* Database.disconnect(): await pool.end(); a second end() is rejected.
Disconnect ==
    /\ Called("Database", "disconnect", <<>>,
              IF ended
              THEN Ended("rejected", "PoolEndedTwiceError", <<>>, FALSE)
              ELSE Ended("resolved", "none", <<>>, FALSE))
    /\ ended' = TRUE

NextHandle ==
    \/ \E ok \in BOOLEAN : Ping(ok)
    \/ \E h \in Handles, ok \in BOOLEAN : Query(h, ok)
    \/ \E in \in HandleInputs, ok \in BOOLEAN : DatabaseNamedQuery(in, ok)
    \/ \E in \in HandleInputs, ok \in BOOLEAN : TransactionNamedQuery(in, ok)
    \/ TransactionConnect
    \/ Disconnect

SpecHandle == Init /\ [][NextHandle]_vars

\* The callback calls tx.namedQuery(template, args) and awaits it: when
\* named() throws, the call throws MissingArgumentError before anything is
\* handed to the client and the callback ends with it; otherwise the compiled
\* statement is issued on the connection of the run and awaited.
CallbackNamedQuery(t, in) ==
    /\ pc[t] = "callback"
    /\ IF Compiled[in].kind = "MissingArgumentError"
       THEN /\ cbResult' = [cbResult EXCEPT ![t] = "MissingArgumentError"]
            /\ err' = [err EXCEPT ![t] = "MissingArgumentError"]
            /\ pc' = [pc EXCEPT ![t] = "catch"]
            /\ UNCHANGED driverVars
       ELSE /\ CountIssued(t, "insert") < MaxStmts
            /\ ClientQuery(t, handle[t], "insert")
            /\ pc' = [pc EXCEPT ![t] = "await"]
            /\ UNCHANGED <<err, cbResult, executed, unhandled>>
    /\ UNCHANGED <<handle, outcome, poolVars, dbVars, namedVars, handleVars>>

\* transaction() with callbacks that also call tx.namedQuery.
NextCallback ==
    \/ Next
    \/ \E t \in Runs, in \in HandleInputs : CallbackNamedQuery(t, in)

SpecCallback == Init /\ [][NextCallback]_vars

-----------------------------------------------------------------------------
(* What the claims about transaction() speak of.                           *)

\* The run got an answer to a statement of this kind, with this success.
Answered(t, kind, ok) ==
    \E i \in 1..Len(executed[t]) :
        executed[t][i].kind = kind /\ executed[t][i].ok = ok

HasIssued(t, kind) == \E i \in 1..Len(issued[t]) : issued[t][i].kind = kind

BeganOk(t) == Answered(t, "begin", TRUE)

CallbackFailed(t) == cbResult[t] \in {"CallbackError", "StatementError"}

\* The rows the statements of the run wrote.
RowsWritten(t) ==
    { Row(t, i) : i \in { j \in 1..Len(executed[t]) :
                            executed[t][j].kind = "insert" /\ executed[t][j].ok } }

(* C1: a run whose begin succeeded releases its connection exactly once:   *)
(* never more than once, once when the run has ended, whatever the         *)
(* callback, the commit and the rollback did; and it always ends released. *)
(* That begin succeeded and that the run ended released both stay true     *)
(* once true, so "whenever begin succeeded the run is eventually released" *)
(* is stated as: from some point on, every run that began is released.     *)
C1_ReleasedExactlyOnce ==
    /\ [](\A t \in Runs :
             /\ releases[t] <= 1
             /\ (pc[t] = "done" /\ BeganOk(t)) =>
                    (releases[t] = 1 /\ owner[handle[t]] # t))
    /\ <>[](\A t \in Runs : BeganOk(t) => (pc[t] = "done" /\ releases[t] = 1))

\* A run that began, whose callback failed and whose rollback failed too, has
\* released its connection.
C1_Witness ==
    \E t \in Runs :
        /\ BeganOk(t)
        /\ Answered(t, "rollback", FALSE)
        /\ pc[t] = "done"
        /\ releases[t] = 1

(* C2: a run whose commit failed never completes normally.                 *)
C2_CommitFailurePropagates ==
    \A t \in Runs : Answered(t, "commit", FALSE) => outcome[t] # "resolved"

(* C3: a run whose begin failed ends with the begin failure and with its   *)
(* connection released to the pool.                                        *)
C3_BeginFailureReleases ==
    \A t \in Runs :
        (pc[t] = "done" /\ Answered(t, "begin", FALSE)) =>
            /\ outcome[t] = "BeginError"
            /\ releases[t] = 1
            /\ owner[handle[t]] # t

(* C4: once the callback has failed with an error, the run settles with    *)
(* nothing but that error, and when it has ended a rollback was issued on  *)
(* its connection and that error is its outcome, also when the rollback    *)
(* failed.                                                                 *)
C4_CallbackErrorObserved ==
    \A t \in Runs :
        CallbackFailed(t) =>
            /\ outcome[t] \in {"pending", cbResult[t]}
            /\ pc[t] = "done" =>
                   /\ outcome[t] = cbResult[t]
                   /\ \E i \in 1..Len(issued[t]) :
                          issued[t][i] = [kind |-> "rollback", conn |-> handle[t]]

\* The callback threw, the rollback failed, and the caller has the error of
\* the callback.
C4_Witness ==
    \E t \in Runs :
        /\ cbResult[t] = "CallbackError"
        /\ Answered(t, "rollback", FALSE)
        /\ outcome[t] = "CallbackError"

(* C5: when a run has completed normally its commit has succeeded and the  *)
(* rows its callback wrote are visible.                                    *)
C5_ReturnMeansCommitted ==
    \A t \in Runs :
        outcome[t] = "resolved" =>
            /\ Answered(t, "commit", TRUE)
            /\ RowsWritten(t) \subseteq visible

(* C6: every statement queued or active on a connection belongs to the run *)
(* the connection is checked out to: none is left when it is released.     *)
C6_ExclusiveUntilRelease ==
    \A c \in Conns :
        \A i \in 1..Len(queue[c]) : owner[c] = queue[c][i].run

-----------------------------------------------------------------------------
(* What the claims about named() speak of: the template read once, left to *)
(* right, as literal characters and placeholder occurrences.               *)

\* The number of word characters s starts with.
RECURSIVE NameLen(_)
NameLen(s) ==
    IF s # <<>> /\ IsWordChar(Head(s)) THEN 1 + NameLen(Tail(s)) ELSE 0

\* The template as segments: a placeholder occurrence ("$" and the longest
\* identifier after it) or one literal character.
RECURSIVE Segments(_)
Segments(q) ==
    IF q = <<>> THEN <<>>
    ELSE IF Head(q) = "$" /\ Len(q) >= 2 /\ IsIdentStart(q[2])
         THEN LET n == NameLen(Tail(q))
              IN  <<[ph |-> TRUE, text |-> SubSeq(q, 2, n + 1)]>>
                      \o Segments(SubSeq(q, n + 2, Len(q)))
         ELSE <<[ph |-> FALSE, text |-> <<Head(q)>>]>> \o Segments(Tail(q))

IsPlaceholder(seg) == seg.ph

\* The names of the placeholder occurrences, in template order.
Occurrences(q) ==
    LET phs == SelectSeq(Segments(q), IsPlaceholder)
    IN  [i \in 1..Len(phs) |-> phs[i].text]

DistinctNames(q) == { Occurrences(q)[i] : i \in 1..Len(Occurrences(q)) }

\* The place of the name of occurrence i among the distinct names, counted in
\* order of first appearance.
RankOf(names, i) ==
    LET first == CHOOSE j \in 1..Len(names) :
                     /\ names[j] = names[i]
                     /\ \A h \in 1..(j - 1) : names[h] # names[i]
    IN  Cardinality({ names[h] : h \in 1..first })

\* The template with its occ-th and later placeholder occurrences written as
\* "$" and the index f gives them, every literal character kept.
RECURSIVE Rewritten(_, _, _)
Rewritten(segs, f, occ) ==
    IF segs = <<>> THEN <<>>
    ELSE IF Head(segs).ph
         THEN <<"$">> \o ToDecimal(f[occ]) \o Rewritten(Tail(segs), f, occ + 1)
         ELSE Head(segs).text \o Rewritten(Tail(segs), f, occ)

\* The argument map has an own entry for the name whose value is not undefined.
Supplied(a, name) ==
    \E i \in 1..Len(a) : a[i].key = name /\ a[i].value # Undefined

ValueOf(a, name) == (a[CHOOSE i \in 1..Len(a) : a[i].key = name]).value

\* The same own entries in every insertion order.
KeyOrders(a) ==
    { b \in [1..Len(a) -> { a[i] : i \in 1..Len(a) }] :
        \A i \in 1..Len(a) : \E j \in 1..Len(a) : b[j] = a[i] }

\* A param carries the payload of the argument value it was made from.
Carries(p, v) == p.val = v.val \/ p.val = <<"ISO">> \o v.val

-----------------------------------------------------------------------------
(* C8: whenever named() returns, there is an assignment of indices to the  *)
(* placeholder occurrences that gives two occurrences the same index       *)
(* exactly when they have the same name, the compiled text is the template *)
(* with every occurrence written as "$" and its index (trimmed), and       *)
(* params holds one entry per distinct name.                               *)
C8_OneIndexPerName ==
    phase = "returned" =>
        LET names == Occurrences(query)
            n     == Len(names)
            k     == Cardinality(DistinctNames(query))
        IN  /\ \E f \in [1..n -> 1..k] :
                   /\ \A i, j \in 1..n : (names[i] = names[j]) <=> (f[i] = f[j])
                   /\ result.preparedQuery = Trim(Rewritten(Segments(query), f, 1))
            /\ Len(result.params) = k

\* A call returned for a template in which one name occurs twice beside
\* another name.
C8_Witness ==
    /\ phase = "returned"
    /\ Cardinality(DistinctNames(query)) >= 2
    /\ Len(Occurrences(query)) > Cardinality(DistinctNames(query))

(* C9: when the argument map supplies every placeholder name, named()      *)
(* returns; params has one entry per distinct name, every occurrence is    *)
(* written with the rank of its name in order of first appearance (so the  *)
(* indices are 1..k), params[rank] is made from that name's argument, and  *)
(* the result is the same for every key order of the argument map.         *)
C9_FirstAppearanceOrder ==
    (phase # "input" /\ \A x \in DistinctNames(query) : Supplied(args, x)) =>
        LET names == Occurrences(query)
            n     == Len(names)
            rank  == [i \in 1..n |-> RankOf(names, i)]
        IN  /\ phase = "returned"
            /\ Len(result.params) = Cardinality(DistinctNames(query))
            /\ { rank[i] : i \in 1..n } = 1..Cardinality(DistinctNames(query))
            /\ result.preparedQuery = Trim(Rewritten(Segments(query), rank, 1))
            /\ \A i \in 1..n :
                   Carries(result.params[rank[i]], ValueOf(args, names[i]))
            /\ \A b \in KeyOrders(args) : named(query, b) = result

\* A call returned for three distinct supplied names, one of them repeated,
\* with an argument map whose first key is not the first name of the template.
C9_Witness ==
    /\ phase = "returned"
    /\ \A x \in DistinctNames(query) : Supplied(args, x)
    /\ Cardinality(DistinctNames(query)) = 3
    /\ Len(Occurrences(query)) = 4
    /\ args[1].key # Occurrences(query)[1]

(* C10: when the argument map lacks a placeholder name (no own entry, or   *)
(* an entry that is undefined), named() throws MissingArgumentError for    *)
(* the first such name in order of appearance and returns no result.       *)
C10_MissingArgumentFails ==
    (phase # "input" /\ \E x \in DistinctNames(query) : ~Supplied(args, x)) =>
        LET names == Occurrences(query)
            first == CHOOSE i \in 1..Len(names) :
                         /\ ~Supplied(args, names[i])
                         /\ \A h \in 1..(i - 1) : Supplied(args, names[h])
        IN  /\ phase = "thrown"
            /\ result.kind = "MissingArgumentError"
            /\ result.arg = names[first]

-----------------------------------------------------------------------------
\* x is a proper prefix of y.
IsProperPrefix(x, y) == Len(x) < Len(y) /\ SubSeq(y, 1, Len(x)) = x

(* C11: when one placeholder name of the template is a proper prefix of    *)
(* another and named() returns, no occurrence of the longer name is        *)
(* rewritten by the pass of the shorter one: the two names have different  *)
(* indices, and every occurrence of either is written as "$" and the index *)
(* of its own name with nothing of the name left behind it.                *)
C11_BoundaryAware ==
    (phase = "returned"
        /\ \E x, y \in DistinctNames(query) : IsProperPrefix(x, y)) =>
        LET names == Occurrences(query)
            n     == Len(names)
            rank  == [i \in 1..n |-> RankOf(names, i)]
        IN  /\ \A i, j \in 1..n :
                   IsProperPrefix(names[i], names[j]) => rank[i] # rank[j]
            /\ result.preparedQuery = Trim(Rewritten(Segments(query), rank, 1))

(* C12: a name whose argument is explicitly null is valid: named() never   *)
(* throws MissingArgumentError for it, and when the call returns, params   *)
(* holds null at that name's index; the name of a MissingArgumentError is  *)
(* always a placeholder whose key is absent or whose value is undefined.   *)
C12_NullIsValid ==
    phase # "input" =>
        LET names == Occurrences(query)
            n     == Len(names)
            rank  == [i \in 1..n |-> RankOf(names, i)]
        IN  /\ \A i \in 1..n :
                   (Supplied(args, names[i]) /\ ValueOf(args, names[i]) = Null) =>
                       /\ ~(phase = "thrown" /\ result.arg = names[i])
                       /\ phase = "returned" =>
                              /\ rank[i] <= Len(result.params)
                              /\ result.params[rank[i]] = Null
            /\ phase = "thrown" =>
                   /\ result.kind = "MissingArgumentError"
                   /\ result.arg \in DistinctNames(query)
                   /\ ~Supplied(args, result.arg)

\* A call returned with null in params for a null-valued name that comes
\* first in a template with a second, non-null name.
C12_Witness ==
    /\ phase = "returned"
    /\ Len(result.params) = 2
    /\ result.params[1] = Null
    /\ result.params[2] # Null
    /\ ValueOf(args, Occurrences(query)[1]) = Null

-----------------------------------------------------------------------------
\* The param a supplied argument value is marshalled to, by its shape; a
\* number gives its text when numberAsText, and itself otherwise.
ByShape(v, numberAsText) ==
    CASE v = Null           -> Null
      [] v.type = "date"    -> StringValue(<<"ISO">> \o v.val)
      [] v.type = "array"   -> v
      [] v.type = "number" /\ ~numberAsText -> v
      [] OTHER              -> StringValue(v.val)

\* Every supplied name's param is what ByShape gives for its argument.
ParamsByShape(numberAsText) ==
    LET names == Occurrences(query)
        n     == Len(names)
        rank  == [i \in 1..n |-> RankOf(names, i)]
    IN  \A i \in 1..n :
            Supplied(args, names[i]) =>
                /\ rank[i] <= Len(result.params)
                /\ result.params[rank[i]]
                       = ByShape(ValueOf(args, names[i]), numberAsText)

(* C13, as stated: when named() returns, the param of every supplied name  *)
(* is made from its argument by shape: null gives null, a date its ISO     *)
(* string, an array the same array, and any other value, a number          *)
(* included, the text toString() gives.                                    *)
C13_MarshalByShape == phase = "returned" => ParamsByShape(TRUE)

(* C13, amended: as above, but a number gives the same number; only the    *)
(* values that are neither null, a date, an array nor a number give their  *)
(* text.                                                                   *)
C13_MarshalByShapeAmended == phase = "returned" => ParamsByShape(FALSE)

\* A call returned for an argument map that holds a number, a string and a
\* date, with the number kept as a number in params.
C13_Witness ==
    /\ phase = "returned"
    /\ \A x \in DistinctNames(query) : Supplied(args, x)
    /\ \E i \in 1..Len(args) : args[i].value.type = "number"
    /\ \E i \in 1..Len(args) : args[i].value.type = "date"
    /\ \E i \in 1..Len(args) : args[i].value.type = "string"
    /\ \E i \in 1..Len(result.params) : result.params[i].type = "number"

(* C14: when named() returns, the param of a supplied number-valued name   *)
(* is that same number, of type number and not its text; for the template  *)
(* ($id, $n, $c_a, $c_a) with {id: 300, n: "admin", c_a: T}, whatever the  *)
(* order of the keys, the text is ($1, $2, $3, $3) and params is           *)
(* [300, "admin", ISO of T].                                               *)
C14_NumberStaysNumber ==
    phase = "returned" =>
        LET names == Occurrences(query)
            n     == Len(names)
            rank  == [i \in 1..n |-> RankOf(names, i)]
            id    == <<"i","d">>
            nm    == <<"n">>
            c_a   == <<"c","_","a">>
        IN  /\ \A i \in 1..n :
                   (Supplied(args, names[i])
                       /\ ValueOf(args, names[i]).type = "number") =>
                       /\ result.params[rank[i]].type = "number"
                       /\ result.params[rank[i]] = ValueOf(args, names[i])
                       /\ result.params[rank[i]]
                              # StringValue(ValueOf(args, names[i]).val)
            /\ (/\ names = <<id, nm, c_a, c_a>>
                /\ \A x \in {id, nm, c_a} : Supplied(args, x)
                /\ ValueOf(args, id) = NumberValue(<<"3","0","0">>)
                /\ ValueOf(args, nm) = StringValue(<<"admin">>)
                /\ ValueOf(args, c_a) = DateValue(<<"T">>)) =>
                   /\ result.params = << NumberValue(<<"3","0","0">>),
                                         StringValue(<<"admin">>),
                                         StringValue(<<"ISO", "T">>) >>
                   /\ result.preparedQuery =
                          <<"(","$","1",","," ","$","2",","," ","$","3",",",
                            " ","$","3",")">>

\* The call of the test "repeated params" returned, its argument map given
\* with created_at as the first key.
C14_Witness ==
    /\ phase = "returned"
    /\ Occurrences(query) = << <<"i","d">>, <<"n">>, <<"c","_","a">>, <<"c","_","a">> >>
    /\ args[1].key = <<"c","_","a">>
    /\ result.params[1] = NumberValue(<<"3","0","0">>)

-----------------------------------------------------------------------------
\* t is s without white space at its two ends: s is white space, then t,
\* then white space, and t neither starts nor ends with white space.
IsTrimOf(t, s) ==
    /\ t = <<>> \/ (~IsSpace(t[1]) /\ ~IsSpace(t[Len(t)]))
    /\ \E i \in 1..(Len(s) + 1) :
           /\ i + Len(t) - 1 <= Len(s)
           /\ SubSeq(s, i, i + Len(t) - 1) = t
           /\ \A h \in 1..Len(s) :
                  (h < i \/ h > i + Len(t) - 1) => IsSpace(s[h])

(* C15: when named() returns, the compiled text is the template with each  *)
(* placeholder occurrence written as "$" and the index of its name, every  *)
(* other character kept in place (the characters directly after a          *)
(* placeholder, such as a cast suffix, included), and the white space at   *)
(* the two ends removed; a call for a template without placeholders        *)
(* returns, with empty params and the template's own trimmed text.         *)
C15_OnlyPlaceholdersChange ==
    phase # "input" =>
        LET segs  == Segments(query)
            names == Occurrences(query)
            n     == Len(names)
            rank  == [i \in 1..n |-> RankOf(names, i)]
        IN  /\ phase = "returned" =>
                   IsTrimOf(result.preparedQuery, Rewritten(segs, rank, 1))
            /\ n = 0 =>
                   /\ phase = "returned"
                   /\ result.params = <<>>
                   /\ IsTrimOf(result.preparedQuery, query)

\* A call returned for a template that starts with white space and has a
\* placeholder directly followed by a colon, which the compiled text keeps.
C15_Witness ==
    /\ phase = "returned"
    /\ Len(query) >= 4
    /\ IsSpace(query[1])
    /\ Len(Occurrences(query)) = 1
    /\ query[Len(query)] = ":"
    /\ result.preparedQuery = <<"$", "1", ":">>

-----------------------------------------------------------------------------
(* C16: a call of ping, query, namedQuery or transaction made on the       *)
(* Database after disconnect() fails with the closed-resource error of the *)
(* pool, hands no statement to the driver and takes no connection.         *)
C16_TerminalAfterDisconnect ==
    (lastCall["Database"].afterEnd
        /\ lastCall["Database"].op \in {"ping", "query", "namedQuery", "transaction"}) =>
        /\ lastCall["Database"].mode \in {"rejected", "thrown"}
        /\ lastCall["Database"].error = "PoolEndedError"
        /\ lastCall["Database"].sent = <<>>
        /\ ~lastCall["Database"].acquired

-----------------------------------------------------------------------------
\* The single left-to-right rewrite of the template keyed by name: each
\* placeholder occurrence becomes "$" and the rank of its name, in one pass
\* over the segments, so that nothing written is read again.
SinglePass(q) ==
    LET names == Occurrences(q)
        rank  == [i \in 1..Len(names) |-> RankOf(names, i)]
    IN  Rewritten(Segments(q), rank, 1)

(* C18: for every template, whenever named() returns, the text its         *)
(* name-by-name substitution loop produced is the text of the single       *)
(* left-to-right rewrite of the template, trimmed: no pass of the loop     *)
(* touched what another pass wrote or was to write.                        *)
C18_LoopIsSinglePass ==
    phase = "returned" => result.preparedQuery = Trim(SinglePass(query))

(* C19: when namedQuery has been called on the Database (before            *)
(* disconnect) and on a Transaction with the same template and argument    *)
(* map, both calls handed the driver the same statements, text and params, *)
(* and a MissingArgumentError reached the caller of both in the same way,  *)
(* as the rejected promise the call returned.                              *)
C19_SameContract ==
    LET d == lastCall["Database"]
        t == lastCall["Transaction"]
    IN  (d.op = "namedQuery" /\ t.op = "namedQuery"
            /\ ~d.afterEnd /\ d.input = t.input) =>
            /\ d.sent = t.sent
            /\ (d.error = "MissingArgumentError"
                   \/ t.error = "MissingArgumentError") =>
                   /\ d.error = t.error
                   /\ d.mode = t.mode
                   /\ d.mode = "rejected"

-----------------------------------------------------------------------------
\* The argument map of the input lacks a placeholder of its template.
Misses(in) == \E x \in DistinctNames(in[1]) : ~Supplied(in[2], x)

MissingInputs == { in \in HandleInputs : Misses(in) }

(* C20: a call of tx.namedQuery in the callback of transaction() whose     *)
(* argument map misses a placeholder of the template hands no statement to *)
(* the driver and ends the callback with MissingArgumentError; and a run   *)
(* whose callback ended with MissingArgumentError has, when it is done,    *)
(* issued a rollback on its connection and given its caller that error.    *)
C20_MissingArgumentRollsBack ==
    /\ [][\A t \in Runs, in \in MissingInputs :
              CallbackNamedQuery(t, in) =>
                  /\ issued' = issued
                  /\ queue' = queue
                  /\ cbResult'[t] = "MissingArgumentError"]_vars
    /\ [](\A t \in Runs :
              (cbResult[t] = "MissingArgumentError" /\ pc[t] = "done") =>
                  /\ outcome[t] = "MissingArgumentError"
                  /\ \E i \in 1..Len(issued[t]) :
                         issued[t][i] = [kind |-> "rollback", conn |-> handle[t]])

=============================================================================
